---- MODULE Spec2Model ----
(***************************************************************************)
(* uuid-mcp: an MCP server with two tools (generate_uuid, validate_uuid)   *)
(* and one resource (uuid://history), served over stdio or over            *)
(* Streamable HTTP with a session map.                                     *)
(*                                                                         *)
(* Representation.  A JavaScript string is a sequence of one-character     *)
(* strings, so that indexing, slicing and concatenation are the Sequences  *)
(* operators.  A millisecond timestamp t is the pair <<hi, lo>> of 24-bit  *)
(* limbs with t = hi * 2^24 + lo, because the model checker's integers are *)
(* 32 bits wide and t needs 48.                                            *)
(***************************************************************************)
EXTENDS Integers, Sequences, FiniteSets, TLC

VARIABLES
    uuidHistory,   \* server.ts: the module-level array of history records
    last,          \* the last request served and its response
    sessions,      \* index.ts: Map session id -> transport
    transports,    \* the StreamableHTTPServerTransport objects created so far
    pending,       \* POST handlers suspended in `await server.connect`
    minted,        \* number of session ids the generator has produced
    everActive,    \* history: every session id that has been a key of the map
    terminated,    \* history: every session id a DELETE request has ended
    generated,     \* history: every record ever pushed, in push order
    calls,         \* number of generate_uuid requests dispatched (bounded)
    handler,       \* the generate_uuid handler's frame when followed line by line
    cin,           \* codec check: the inputs drawn
    cout           \* codec check: the values computed from cin

vars == <<uuidHistory, last, sessions, transports, pending, minted, everActive,
          terminated, generated, calls, handler, cin, cout>>

httpVars == <<sessions, transports, pending, minted, everActive, terminated>>
historyVars == <<uuidHistory, generated, calls, handler>>
codecVars == <<cin, cout>>

----------------------------------------------------------------------------
(* Characters and bytes *)

HexChars == <<"0","1","2","3","4","5","6","7","8","9","a","b","c","d","e","f">>

LowerHex == {HexChars[i] : i \in 1..16}

\* The upper-case letters that the i flag folds onto the classes' letters.
ToLowerCase(ch) ==
    CASE ch = "A" -> "a" [] ch = "B" -> "b" [] ch = "C" -> "c"
      [] ch = "D" -> "d" [] ch = "E" -> "e" [] ch = "F" -> "f"
      [] ch = "G" -> "g" [] ch = "Z" -> "z"
      [] OTHER -> ch

\* x & 0xff, x & 0x0f, x & 0x3f on a non-negative integer, and x | m where
\* the bits of m are clear in x.
BitAnd255(x) == x % 256
BitAnd15(x) == x % 16
BitAnd63(x) == x % 64

\* Number.prototype.toString(16) of a byte.
ToString16(b) ==
    IF b < 16 THEN <<HexChars[b + 1]>>
    ELSE <<HexChars[(b \div 16) + 1], HexChars[(b % 16) + 1]>>

\* Mutant of PadStart2: the padding is left out.
PadStart2_NoPad(s) == s

\* String.prototype.padStart(2, "0").
PadStart2(s) == IF Len(s) < 2 THEN <<"0">> \o s ELSE s

RECURSIVE JoinHex(_)
\* Array.from(bytes).map(b => b.toString(16).padStart(2, "0")).join("")
JoinHex(bytes) ==
    IF bytes = <<>> THEN <<>>
    ELSE PadStart2(ToString16(Head(bytes))) \o JoinHex(Tail(bytes))

\* hex.slice(a, b) with 0-based a, exclusive b, clamped to the string.
Slice(s, a, b) ==
    LET e == IF b > Len(s) THEN Len(s) ELSE b
    IN  IF a >= e THEN <<>> ELSE SubSeq(s, a + 1, e)

\* `${hex.slice(0,8)}-${hex.slice(8,12)}-${hex.slice(12,16)}-${hex.slice(16,20)}-${hex.slice(20)}`
FormatUuid(hex) ==
    Slice(hex, 0, 8) \o <<"-">> \o Slice(hex, 8, 12) \o <<"-">> \o
    Slice(hex, 12, 16) \o <<"-">> \o Slice(hex, 16, 20) \o <<"-">> \o
    Slice(hex, 20, Len(hex))

----------------------------------------------------------------------------
(* Identifier generation *)

V4 == <<"v", "4">>
V7 == <<"v", "7">>

\* Mutant of TimestampBytes: only the low 32 bits of the timestamp are kept.
TimestampBytes_Low32(ts) ==
    LET hi == ts[1]
        lo == ts[2]
    IN  << 0, 0,
           BitAnd255(hi),
           BitAnd255(lo \div 65536),
           BitAnd255(lo \div 256),
           BitAnd255(lo) >>

\* Mutant of TimestampBytes: the six bytes in little-endian order.
TimestampBytes_LittleEndian(ts) ==
    LET hi == ts[1]
        lo == ts[2]
    IN  << BitAnd255(lo),
           BitAnd255(lo \div 256),
           BitAnd255(lo \div 65536),
           BitAnd255(hi),
           BitAnd255(hi \div 256),
           BitAnd255(hi \div 65536) >>

\* bytes[0..5] of generateUuidV7 for timestamp ts = <<hi, lo>>:
\* (timestamp / 2 ** k) & 0xff truncates the quotient and keeps its low byte.
TimestampBytes(ts) ==
    LET hi == ts[1]
        lo == ts[2]
    IN  << BitAnd255(hi \div 65536),
           BitAnd255(hi \div 256),
           BitAnd255(hi),
           BitAnd255(lo \div 65536),
           BitAnd255(lo \div 256),
           BitAnd255(lo) >>

\* Mutant of SetVersion7: the marker in the low nibble.
SetVersion7_LowNibble(b) == BitAnd15(b) * 16 + 7

\* bytes[6] = (bytes[6] & 0x0f) | 0x70
SetVersion7(b) == BitAnd15(b) + 112

\* bytes[8] = (bytes[8] & 0x3f) | 0x80
SetVariant(b) == BitAnd63(b) + 128

\* Mutant of generateUuidV7: bytes 0..5 are left zero.
generateUuidV7_NoTimestamp(ts, rnd) ==
    LET raw    == <<0, 0, 0, 0, 0, 0>> \o rnd
        bytes  == [raw EXCEPT ![7] = SetVersion7(raw[7]), ![9] = SetVariant(raw[9])]
    IN  FormatUuid(JoinHex(bytes))

\* generateUuidV7 with Date.now() = ts and randomBytes(10) = rnd.
generateUuidV7(ts, rnd) ==
    LET raw    == TimestampBytes(ts) \o rnd
        bytes  == [raw EXCEPT ![7] = SetVersion7(raw[7]), ![9] = SetVariant(raw[9])]
    IN  FormatUuid(JoinHex(bytes))

\* crypto.randomUUID() with 16 random bytes rnd: an RFC 4122 version 4
\* identifier (version nibble 4, variant bits 10), lower-case.
randomUUID(rnd) ==
    LET bytes == [rnd EXCEPT ![7] = BitAnd15(rnd[7]) + 64, ![9] = SetVariant(rnd[9])]
    IN  FormatUuid(JoinHex(bytes))

----------------------------------------------------------------------------
(* Identifier validation *)

\* A value no string equals: JavaScript's null.
Null == <<"null">>

HexClass == LowerHex
VersionClass == {"1","2","3","4","5","6","7"}
VariantClass == {"8","9","a","b"}

\* /^[0-9a-f]{8}-[0-9a-f]{4}-[1-7][0-9a-f]{3}-[89ab][0-9a-f]{3}-[0-9a-f]{12}$/i
\* as its sequence of (character class, repetition count) atoms.
uuidPattern ==
    << [cls |-> HexClass, n |-> 8],  [cls |-> {"-"}, n |-> 1],
       [cls |-> HexClass, n |-> 4],  [cls |-> {"-"}, n |-> 1],
       [cls |-> VersionClass, n |-> 1], [cls |-> HexClass, n |-> 3], [cls |-> {"-"}, n |-> 1],
       [cls |-> VariantClass, n |-> 1], [cls |-> HexClass, n |-> 3], [cls |-> {"-"}, n |-> 1],
       [cls |-> HexClass, n |-> 12] >>

\* A character matches a class under the i flag.
ClassMatchesI(cls, ch) == ToLowerCase(ch) \in cls

RECURSIVE MatchAtoms(_, _, _)
\* The position after matching the atoms from position pos of s (1-based),
\* or 0 when they do not match there.
MatchAtoms(atoms, s, pos) ==
    IF atoms = <<>> THEN pos
    ELSE LET a == Head(atoms)
         IN  IF a.n = 0 THEN MatchAtoms(Tail(atoms), s, pos)
             ELSE IF pos > Len(s) THEN 0
             ELSE IF ~ClassMatchesI(a.cls, s[pos]) THEN 0
             ELSE MatchAtoms(<<[a EXCEPT !.n = a.n - 1]>> \o Tail(atoms), s, pos + 1)

\* Mutant of PatternTest: the $ anchor is left out.
PatternTest_NoEndAnchor(s) == MatchAtoms(uuidPattern, s, 1) # 0

\* uuidPattern.test(uuid): ^ anchors the match at the start, $ at the end.
PatternTest(s) == MatchAtoms(uuidPattern, s, 1) = Len(s) + 1

\* The validate_uuid handler: isValid, the detected version, the text returned.
validate_uuid(uuid) ==
    LET isValid     == PatternTest(uuid)
        versionChar == IF isValid THEN uuid[15] ELSE ""
        version     == IF isValid /\ versionChar # "" THEN <<"v", versionChar>> ELSE Null
    IN  [ isValid |-> isValid,
          version |-> version,
          text    |-> IF isValid
                      THEN <<"valid-prefix">> \o version \o <<"valid-suffix">>
                      ELSE <<"invalid-prefix">> \o uuid ]

----------------------------------------------------------------------------
(* The tool and resource handlers of createUuidServer *)

\* while (uuidHistory.length > 100)
HistoryLimit == 100

\* uuidHistory.slice(-20)
RecentCount == 20

\* The random source: the bytes of the i-th draw of a call, n of them.  Every
\* draw of a run is a function of the seed chosen for the call.
RandomBytesOf(seed, i, n) == [k \in 1..n |-> (seed + 37 * i + 11 * k) % 256]

\* The body of the for loop: the identifier for the requested version, from
\* the clock reading ts and the random draw rnd (v7 reads its first 10 bytes).
NewUuid(version, ts, rnd) ==
    IF version = V7 THEN generateUuidV7(ts, SubSeq(rnd, 1, 10))
    ELSE randomUUID(rnd)

RECURSIVE GenerateLoop(_, _, _, _, _)

\* Mutant of GenerateLoop: the loop test is i <= count.
GenerateLoop_OffByOne(version, halves, ts, seed, i) ==
    IF 2 * i <= halves
    THEN <<NewUuid(version, ts, RandomBytesOf(seed, i, 16))>>
         \o GenerateLoop(version, halves, ts, seed, i + 1)
    ELSE <<>>

\* for (let i = 0; i < count; i++): the identifiers of iterations i, i+1, ...
\* The count is given in halves (count = halves / 2), so i < count is
\* 2 * i < halves.
GenerateLoop(version, halves, ts, seed, i) ==
    IF 2 * i < halves
    THEN <<NewUuid(version, ts, RandomBytesOf(seed, i, 16))>>
         \o GenerateLoop(version, halves, ts, seed, i + 1)
    ELSE <<>>

\* uuidHistory.push({uuid, version, createdAt}) for each identifier.
HistoryRecords(uuids, version, ts) ==
    [i \in 1..Len(uuids) |-> [uuid |-> uuids[i], version |-> version, createdAt |-> ts]]

\* Mutant of Evict: an if in place of the while.
Evict_Once(h) == IF Len(h) > HistoryLimit THEN Tail(h) ELSE h

RECURSIVE Evict(_)
\* while (uuidHistory.length > 100) uuidHistory.shift()
Evict(h) == IF Len(h) > HistoryLimit THEN Evict(Tail(h)) ELSE h

\* `${i + 1}`
DecimalString(n) ==
    IF n < 10 THEN <<HexChars[n + 1]>>
    ELSE <<HexChars[(n \div 10) + 1], HexChars[(n % 10) + 1]>>

RECURSIVE NumberedLines_ZeroBased(_, _)
\* Mutant of NumberedLines: `${i}` in place of `${i + 1}`.
NumberedLines_ZeroBased(uuids, i) ==
    IF i > Len(uuids) THEN <<>>
    ELSE (IF i > 1 THEN <<"\n">> ELSE <<>>)
         \o DecimalString(i - 1) \o <<".", " ">> \o uuids[i]
         \o NumberedLines_ZeroBased(uuids, i + 1)

RECURSIVE NumberedLines(_, _)
\* uuids.map((u, i) => `${i + 1}. ${u}`).join("\n"), from index i on.
NumberedLines(uuids, i) ==
    IF i > Len(uuids) THEN <<>>
    ELSE (IF i > 1 THEN <<"\n">> ELSE <<>>)
         \o DecimalString(i) \o <<".", " ">> \o uuids[i]
         \o NumberedLines(uuids, i + 1)

\* The text of the generate_uuid result.  "header(" stands for the fixed
\* words before the version.
GenerateText(version, halves, uuids) ==
    IF halves = 2
    THEN <<"header(">> \o version \o <<")", ":", " ">> \o uuids[1]
    ELSE <<"header(">> \o version \o <<")", ":", "\n">> \o NumberedLines(uuids, 1)

\* Mutant of generate_uuid: the new records go to the front of the array.
generate_uuid_Unshift(history, version, halves, ts, seed) ==
    LET uuids   == GenerateLoop(version, halves, ts, seed, 0)
        records == HistoryRecords(uuids, version, ts)
    IN  [ history |-> Evict(records \o history),
          pushed  |-> records,
          uuids   |-> uuids,
          text    |-> GenerateText(version, halves, uuids) ]

\* The generate_uuid handler on validated arguments: the new history, the
\* records pushed and the text returned.
generate_uuid(history, version, halves, ts, seed) ==
    LET uuids   == GenerateLoop(version, halves, ts, seed, 0)
        records == HistoryRecords(uuids, version, ts)
    IN  [ history |-> Evict(history \o records),
          pushed  |-> records,
          uuids   |-> uuids,
          text    |-> GenerateText(version, halves, uuids) ]

\* Mutant of ArrayAfterSlice: splice(-20), which removes what it returns.
ArrayAfterSlice_Splice(arr) ==
    IF Len(arr) > RecentCount THEN SubSeq(arr, 1, Len(arr) - RecentCount) ELSE <<>>

\* The array after arr.slice(-20): slice returns a copy and leaves arr as
\* it was.
ArrayAfterSlice(arr) == arr

\* Mutant of uuid_history: totalCount is the length of the slice.
uuid_history_CountsSlice(history) ==
    LET recent == Slice(history, IF Len(history) > RecentCount
                                 THEN Len(history) - RecentCount ELSE 0,
                        Len(history))
    IN  [ totalCount |-> Len(recent), history |-> recent ]

\* Mutant of uuid_history: slice(0, 20) in place of slice(-20).
uuid_history_Oldest(history) ==
    [ totalCount |-> Len(history), history |-> Slice(history, 0, RecentCount) ]

\* The uuid://history resource handler.
uuid_history(history) ==
    [ totalCount |-> Len(history),
      history    |-> Slice(history, IF Len(history) > RecentCount
                                    THEN Len(history) - RecentCount ELSE 0,
                           Len(history)) ]

\* inputSchema of generate_uuid: version is z.enum(["v4","v7"]).default("v4").
VersionSchemaOk(args) == "version" \in DOMAIN args => args.version \in {V4, V7}
VersionOf(args) == IF "version" \in DOMAIN args THEN args.version ELSE V4

\* Mutant of CountSchemaOk: min(0) in place of min(1).
CountSchemaOk_MinZero(args) == "count" \in DOMAIN args => (args.count >= 0 /\ args.count <= 20)

\* count is z.number().min(1).max(10).default(1); the value is in halves.
CountSchemaOk(args) == "count" \in DOMAIN args => (args.count >= 2 /\ args.count <= 20)
CountOf(args) == IF "count" \in DOMAIN args THEN args.count ELSE 2

\* tools/call generate_uuid: schema validation, then the handler.
CallGenerate(history, args, ts, seed) ==
    IF VersionSchemaOk(args) /\ CountSchemaOk(args)
    THEN LET r == generate_uuid(history, VersionOf(args), CountOf(args), ts, seed)
         IN  [ history |-> r.history, pushed |-> r.pushed,
               resp |-> [ok |-> TRUE, error |-> "", uuids |-> r.uuids, text |-> r.text] ]
    ELSE [ history |-> history, pushed |-> <<>>,
           resp |-> [ok |-> FALSE, error |-> "InvalidParams", uuids |-> <<>>, text |-> <<>>] ]

----------------------------------------------------------------------------
(* Values that no HTTP session, no codec check and no request have yet *)

NoSessions == <<>>
NoTransports == <<>>
NoHeader == 0
Absent == << >>
NoResp == [ok |-> TRUE]

\* sessions.get(id) when the map has no such key: undefined.
NoTransport == 0

NoRequest ==
    [ seq |-> 0, verb |-> "none", header |-> NoHeader, op |-> "none", args |-> Absent,
      status |-> 0, code |-> 0, resp |-> NoResp, reqId |-> Null, id |-> Null,
      via |-> NoTransport ]

\* The record of a request just served: seq alternates between 0 and 1, so
\* that serving the same request twice is two steps.  status is the HTTP
\* status (0 over stdio), code the JSON-RPC error code (0 when none).
Served(verb, header, op, args, status, code, resp) ==
    [ seq |-> 1 - last.seq, verb |-> verb, header |-> header, op |-> op, args |-> args,
      status |-> status, code |-> code, resp |-> resp, reqId |-> Null, id |-> Null,
      via |-> NoTransport ]

\* The JSON-RPC id of the requests sent with a body.
RequestId == <<"7">>

\* A served request whose body carried the id reqId, answered with a body
\* whose id member is id (Null is JSON null; a request without a body, or a
\* response without one, has none).
Answer(reqId, id, served) == [served EXCEPT !.reqId = reqId, !.id = id]

\* A served request that was handed to transport t: transport.handleRequest.
HandledBy(t, served) == [served EXCEPT !.via = t]
NoCodec == [kind |-> "none"]

\* The frame of a generate_uuid handler that is not running.
NoFrame ==
    [ pc |-> "idle", args |-> Absent, version |-> <<>>, halves |-> 0, i |-> 0,
      ts |-> <<0, 0>>, seed |-> 0, uuids |-> <<>> ]

HttpIdle ==
    /\ sessions = NoSessions
    /\ transports = NoTransports
    /\ pending = {}
    /\ minted = 0
    /\ everActive = {}
    /\ terminated = {}

CodecIdle == cin = NoCodec /\ cout = NoCodec

----------------------------------------------------------------------------
(* Inputs *)

\* Clock readings <<hi, lo>>: 0, 1, 2^24 - 1, 2^24, a present-day reading,
\* 2^48 - 1 and 2^48.
TimeSamples ==
    { <<0, 0>>, <<0, 1>>, <<0, 16777215>>, <<1, 0>>, <<104857, 6000000>>,
      <<16777215, 16777215>>, <<16777216, 0>> }

ByteSamples == {0, 1, 15, 16, 63, 64, 127, 128, 191, 192, 240, 255}
FillSamples == {0, 10, 171, 255}

\* A 16-byte random draw whose bytes under the version marker (byte 6 of a
\* v4 draw, byte 0 of a v7 tail) are b6, under the variant marker b8; the
\* other bytes differ from position to position.
DrawOf(b6, b8, fill) ==
    [k \in 1..16 |-> IF k \in {1, 7} THEN b6
                     ELSE IF k \in {3, 9} THEN b8
                     ELSE (fill + 17 * k) % 256]

\* Candidate strings for validate_uuid: two well-formed identifiers, every
\* one-character replacement in them, one-character extensions at either
\* end, every proper prefix, and the doubled string.
BaseLower ==
    << "1","2","3","4","5","6","7","8","-","9","a","b","c","-","4","d","e","f","-",
       "8","a","0","1","-","2","3","4","5","6","7","8","9","a","b","c","d" >>
BaseUpper ==
    [i \in 1..36 |-> CASE BaseLower[i] = "a" -> "A" [] BaseLower[i] = "b" -> "B"
                       [] BaseLower[i] = "c" -> "C" [] BaseLower[i] = "d" -> "D"
                       [] BaseLower[i] = "e" -> "E" [] BaseLower[i] = "f" -> "F"
                       [] OTHER -> BaseLower[i]]
Bases == {BaseLower, BaseUpper}
MutChars == {"0", "1", "7", "8", "9", "a", "b", "c", "f", "A", "B", "C", "F",
             "g", "G", "-", "z", " "}
Candidates ==
    Bases
    \cup {[b EXCEPT ![p] = ch] : b \in Bases, p \in 1..36, ch \in MutChars}
    \cup {b \o <<ch>> : b \in Bases, ch \in MutChars}
    \cup {<<ch>> \o b : b \in Bases, ch \in MutChars}
    \cup {SubSeq(b, 1, n) : b \in Bases, n \in 0..35}
    \cup {b \o b : b \in Bases}

----------------------------------------------------------------------------
(* The codec on its own: inputs drawn at the start, then applied *)

\* Clock readings whose limbs sit at the byte boundaries.
LimbSamples == {0, 1, 255, 256, 65535, 65536, 16777215}
TimeGrid == {<<hi, lo>> : hi \in LimbSamples, lo \in LimbSamples}

GenInputs ==
    [kind : {"gen"}, version : {V4, V7}, ts : TimeSamples,
     b6 : ByteSamples, b8 : ByteSamples, fill : FillSamples]
    \cup [kind : {"gen"}, version : {V7}, ts : TimeGrid, b6 : {0}, b8 : {0}, fill : {0}]
ValInputs == [kind : {"val"}, uuid : Candidates]

\* Two calls of generateUuidV7: the clock reading and the random tail of
\* each (tail bytes 0 and the rest chosen apart, byte 2 zero).
PairInputs ==
    [kind : {"pair"}, ts : TimeSamples, ts2 : TimeSamples,
     b6 : {0, 255}, b6b : {0, 255}, fill : {0, 255}, fillb : {0, 255}]

InitCodec ==
    /\ cin \in GenInputs \cup ValInputs \cup PairInputs
    /\ cout = [stage |-> "input"]
    /\ uuidHistory = <<>> /\ generated = <<>> /\ calls = 0 /\ last = NoRequest
    /\ handler = NoFrame
    /\ HttpIdle

CodecFrame == UNCHANGED <<historyVars, last, httpVars, cin>>

\* The loop body of generate_uuid on the drawn inputs.
CodecGenerate ==
    /\ cin.kind = "gen" /\ cout.stage = "input"
    /\ cout' = [stage |-> "generated",
                uuid |-> NewUuid(cin.version, cin.ts, DrawOf(cin.b6, cin.b8, cin.fill))]
    /\ CodecFrame

\* validate_uuid on the identifier just generated.
CodecRoundTrip ==
    /\ cout.stage = "generated"
    /\ cout' = [stage |-> "validated", uuid |-> cout.uuid, result |-> validate_uuid(cout.uuid)]
    /\ CodecFrame

\* validate_uuid on a drawn candidate.
CodecValidate ==
    /\ cin.kind = "val" /\ cout.stage = "input"
    /\ cout' = [stage |-> "validated", uuid |-> cin.uuid, result |-> validate_uuid(cin.uuid)]
    /\ CodecFrame

\* generateUuidV7 called twice, at cin.ts and then at cin.ts2.
CodecGeneratePair ==
    /\ cin.kind = "pair" /\ cout.stage = "input"
    /\ cout' = [stage  |-> "paired",
                first  |-> generateUuidV7(cin.ts, SubSeq(DrawOf(cin.b6, 0, cin.fill), 1, 10)),
                second |-> generateUuidV7(cin.ts2, SubSeq(DrawOf(cin.b6b, 0, cin.fillb), 1, 10))]
    /\ CodecFrame

NextCodec == CodecGenerate \/ CodecRoundTrip \/ CodecValidate \/ CodecGeneratePair

SpecCodec == InitCodec /\ [][NextCodec]_vars

----------------------------------------------------------------------------
(* Claims about the codec, under SpecCodec *)

\* C9: round trip.  Every identifier produced by the generate_uuid loop body
\* is reported valid by validate_uuid, and the detected version is the
\* version it was generated with (v4 for v4, v7 for v7).
C9_RoundTrip ==
    (cin.kind = "gen" /\ cout.stage = "validated")
        => /\ cout.result.isValid
           /\ cout.result.version = cin.version

\* A v7 identifier generated from a draw whose marker bits are all set, at
\* the largest 48-bit clock reading, has been validated.
C9_Witness ==
    /\ cin.kind = "gen" /\ cout.stage = "validated"
    /\ cin.version = V7 /\ cin.b6 = 255 /\ cin.b8 = 255
    /\ cin.ts = <<16777215, 16777215>>
    /\ cout.result.version = V7

UpperHex == {"A", "B", "C", "D", "E", "F"}
Digits == {"0", "1", "2", "3", "4", "5", "6", "7", "8", "9"}

\* The 8-4-4-4-12 shape, position by position (positions are 1-based here:
\* index 14 of the string is position 15).
CanonicalShape(s) ==
    /\ Len(s) = 36
    /\ \A p \in 1..36 :
          IF p \in {9, 14, 19, 24} THEN s[p] = "-"
          ELSE IF p = 15 THEN s[p] \in {"1", "2", "3", "4", "5", "6", "7"}
          ELSE IF p = 20 THEN s[p] \in {"8", "9", "a", "b", "A", "B"}
          ELSE s[p] \in Digits \cup {"a", "b", "c", "d", "e", "f"} \cup UpperHex

\* C10: validate_uuid is total and exact.  For every input string it returns
\* a result; the result is valid exactly when the string has the 8-4-4-4-12
\* hyphenated hex shape with version character in 1..7 and variant character
\* in {8,9,a,b}, in either case of the letters; the detected version is then
\* "v" followed by the character at index 14, and null for an invalid input.
C10_ValidateExact ==
    cout.stage = "validated"
        => /\ cout.result.isValid \in BOOLEAN
           /\ cout.result.isValid <=> CanonicalShape(cout.uuid)
           /\ cout.result.isValid => cout.result.version = <<"v", cout.uuid[15]>>
           /\ ~cout.result.isValid => cout.result.version = Null

\* A well-formed identifier written in upper case has been accepted, with
\* its version detected.
C10_Witness ==
    /\ cin.kind = "val" /\ cout.stage = "validated"
    /\ \E p \in 1..Len(cout.uuid) : cout.uuid[p] \in UpperHex
    /\ cout.result.isValid
    /\ cout.result.version = V4

\* The characters of a canonical string in the order of their code units:
\* "-" before the digits, the digits before the lower-case letters.
CodeUnitOrder == <<"-","0","1","2","3","4","5","6","7","8","9","a","b","c","d","e","f">>
CodeUnitRank(ch) == CHOOSE i \in 1..Len(CodeUnitOrder) : CodeUnitOrder[i] = ch

\* a < b and a <= b on strings, as the language compares them: by the first
\* position where they differ, a proper prefix being the smaller.
StringLess(a, b) ==
    \E p \in 1..(Len(a) + 1) :
        /\ p <= Len(b)
        /\ \A q \in 1..(p - 1) : a[q] = b[q]
        /\ (p <= Len(a) => CodeUnitRank(a[p]) < CodeUnitRank(b[p]))
StringLeq(a, b) == a = b \/ StringLess(a, b)

\* Order of clock readings <<hi, lo>>, and the readings that fit 48 bits.
TimeLess(a, b) == a[1] < b[1] \/ (a[1] = b[1] /\ a[2] < b[2])
TimeLeq(a, b) == a = b \/ TimeLess(a, b)
Fits48(ts) == ts[1] < 16777216 /\ ts[2] < 16777216

\* C11 as stated: for any two v7 identifiers generated at timestamps
\* t1 <= t2 (that fit 48 bits), equal milliseconds included, and with any
\* random fills, the
\* canonical string of the first is lexicographically less than or equal to
\* the canonical string of the second.
C11_NonDecreasing ==
    (cout.stage = "paired" /\ Fits48(cin.ts) /\ Fits48(cin.ts2) /\ TimeLeq(cin.ts, cin.ts2))
        => StringLeq(cout.first, cout.second)

\* C11 as amended: for two v7 identifiers generated at timestamps t1 < t2
\* that fit 48 bits, whatever the random fills, the canonical string of the
\* first is lexicographically less than that of the second; at equal
\* milliseconds the two strings have the same first 13 characters (the
\* timestamp) and are ordered as their random tails are.
C11_OrderedAcrossMilliseconds ==
    (cout.stage = "paired" /\ Fits48(cin.ts) /\ Fits48(cin.ts2))
        => /\ TimeLess(cin.ts, cin.ts2) => StringLess(cout.first, cout.second)
           /\ cin.ts = cin.ts2
                => /\ SubSeq(cout.first, 1, 13) = SubSeq(cout.second, 1, 13)
                   /\ StringLess(cout.first, cout.second)
                        <=> StringLess(SubSeq(cout.first, 14, 36), SubSeq(cout.second, 14, 36))

\* Two identifiers one millisecond apart across a carry between limbs, the
\* earlier with the larger random tail, are in order.
C11_Witness ==
    /\ cout.stage = "paired"
    /\ cin.ts = <<0, 16777215>> /\ cin.ts2 = <<1, 0>>
    /\ cin.b6 = 255 /\ cin.fill = 255 /\ cin.b6b = 0 /\ cin.fillb = 0
    /\ StringLess(cout.first, cout.second)
    /\ StringLess(SubSeq(cout.second, 14, 36), SubSeq(cout.first, 14, 36))

\* The value of a lower-case hex digit, the position (1-based) in the
\* canonical string of hex digit h (0-based), and byte k (0..15) of the
\* identifier a canonical string denotes.
HexDigitValue(ch) == (CHOOSE i \in 1..16 : HexChars[i] = ch) - 1
HexPosition(h) ==
    h + 1 + (IF h >= 8 THEN 1 ELSE 0) + (IF h >= 12 THEN 1 ELSE 0)
          + (IF h >= 16 THEN 1 ELSE 0) + (IF h >= 20 THEN 1 ELSE 0)
ByteAt(s, k) ==
    16 * HexDigitValue(s[HexPosition(2 * k)]) + HexDigitValue(s[HexPosition(2 * k + 1)])

\* The 8-4-4-4-12 shape in lower case.
LowerCaseShape(s) ==
    /\ Len(s) = 36
    /\ \A p \in 1..36 : IF p \in {9, 14, 19, 24} THEN s[p] = "-" ELSE s[p] \in LowerHex

\* C12: for every timestamp and every random fill, the identifier
\* generateUuidV7 produces is a lower-case 8-4-4-4-12 hex string whose byte 6
\* has high nibble 7 and whose byte 8 has high two bits 10, and every other
\* bit of bytes 6..15 is the bit of the random fill at that place.
C12_MarkerBits ==
    (cin.kind = "gen" /\ cin.version = V7 /\ cout.stage = "generated")
        => LET u   == cout.uuid
               rnd == SubSeq(DrawOf(cin.b6, cin.b8, cin.fill), 1, 10)
           IN  /\ LowerCaseShape(u)
               /\ ByteAt(u, 6) \div 16 = 7
               /\ ByteAt(u, 8) \div 64 = 2
               /\ ByteAt(u, 6) % 16 = rnd[1] % 16
               /\ ByteAt(u, 8) % 64 = rnd[3] % 64
               /\ \A k \in {7} \cup 9..15 : ByteAt(u, k) = rnd[k - 5]

\* An identifier has been generated from a tail whose bytes under both
\* markers have every bit set.
C12_Witness ==
    /\ cin.kind = "gen" /\ cin.version = V7 /\ cout.stage = "generated"
    /\ cin.b6 = 255 /\ cin.b8 = 255 /\ cin.fill = 171
    /\ ByteAt(cout.uuid, 6) = 127 /\ ByteAt(cout.uuid, 8) = 191

\* C26: for any two v7 identifiers generated at distinct millisecond
\* timestamps t1 < t2, both below 2^48, and with any random fills, the
\* canonical string of the first is strictly less, lexicographically, than
\* the canonical string of the second.
C26_StrictAcrossMilliseconds ==
    ( /\ cout.stage = "paired"
      /\ Fits48(cin.ts) /\ Fits48(cin.ts2)
      /\ TimeLess(cin.ts, cin.ts2) )
        => /\ StringLess(cout.first, cout.second)
           /\ ~StringLess(cout.second, cout.first)
           /\ cout.first # cout.second
           /\ StringLess(SubSeq(cout.first, 1, 13), SubSeq(cout.second, 1, 13))

\* Two identifiers generated years apart, the earlier with the larger random
\* tail, are in order.
C26_Witness ==
    /\ cout.stage = "paired"
    /\ cin.ts = <<0, 1>> /\ cin.ts2 = <<104857, 6000000>>
    /\ cin.b6 = 255 /\ cin.b6b = 0
    /\ StringLess(cout.first, cout.second)

\* The clock reading <<hi, lo>> that the first 12 hex digits of a canonical
\* string denote.
DecodedTime(s) ==
    << ByteAt(s, 0) * 65536 + ByteAt(s, 1) * 256 + ByteAt(s, 2),
       ByteAt(s, 3) * 65536 + ByteAt(s, 4) * 256 + ByteAt(s, 5) >>

\* C30: for every millisecond timestamp t with 0 <= t < 2^48, bytes 0..5
\* written by generateUuidV7 are the big-endian 48-bit encoding of t, so
\* the first 12 hex digits of the identifier decode back to t.
C30_TimestampEncoding ==
    (cin.kind = "gen" /\ cin.version = V7 /\ cout.stage = "generated" /\ Fits48(cin.ts))
        => /\ LowerCaseShape(cout.uuid)
           /\ DecodedTime(cout.uuid) = cin.ts
           /\ ByteAt(cout.uuid, 0) = cin.ts[1] \div 65536
           /\ ByteAt(cout.uuid, 5) = cin.ts[2] % 256

\* An identifier has been generated at a reading whose six bytes are
\* 00 ff ff 01 00 00.
C30_Witness ==
    /\ cin.kind = "gen" /\ cin.version = V7 /\ cout.stage = "generated"
    /\ cin.ts = <<65535, 65536>>
    /\ SubSeq(cout.uuid, 1, 13) = <<"0","0","f","f","f","f","0","1","-","0","0","0","0">>

----------------------------------------------------------------------------
(* stdio mode: one server for the life of the process (startStdioServer) *)

MaxCalls == 1

\* Arguments objects of generate_uuid.  A count is given in halves: alone
\* it is 0, 0.5, 1, 1.5, 9.5, 10, 10.5 or 11; with a version, every integer
\* from 1 to 10.
BadVersion == <<"v", "1">>
CountSamples == {0, 1, 2, 3, 19, 20, 21, 22}
GenerateArgs ==
    {Absent, [version |-> V7], [version |-> BadVersion], [version |-> BadVersion, count |-> 4]}
    \cup {[count |-> h] : h \in CountSamples}
    \cup {[version |-> v, count |-> 2 * c] : v \in {V4, V7}, c \in 1..10}

\* What the n-th observed call reads from the clock and the random source.
CallDraw(n) == [ts |-> <<104857, 6000000 + n>>, seed |-> 201 + 7 * n]

\* Strings sent to validate_uuid over the wire.
ValidateSamples == { BaseUpper, SubSeq(BaseLower, 1, 35) }

RECURSIVE Replay(_, _, _)
\* The history and the push log after k more generate_uuid calls of count
\* halves / 2, alternating the version, starting from state st.  (The test
\* on the lengths makes each call's result a value before the next call.)
Replay(st, k, halves) ==
    IF k = 0 THEN st
    ELSE LET c    == CallGenerate(st.history,
                                  [version |-> IF k % 2 = 0 THEN V4 ELSE V7, count |-> halves],
                                  <<104857, 5000000 + k>>, k)
             next == [history |-> c.history, generated |-> st.generated \o c.pushed]
         IN  IF Len(next.history) <= Len(next.generated)
             THEN Replay(next, k - 1, halves)
             ELSE next

\* Earlier traffic a stdio server may have served when observation starts:
\* <<number of calls, count in halves>>.
EarlierTraffic == { <<0, 2>>, <<1, 6>>, <<11, 18>>, <<10, 20>>, <<14, 20>> }

InitStdio ==
    /\ \E e \in EarlierTraffic :
          LET st == Replay([history |-> <<>>, generated |-> <<>>], e[1], e[2])
          IN  uuidHistory = st.history /\ generated = st.generated
    /\ calls = 0
    /\ handler = NoFrame
    /\ last = NoRequest
    /\ HttpIdle
    /\ CodecIdle

\* tools/call generate_uuid
StdioGenerate ==
    /\ calls < MaxCalls
    /\ \E args \in GenerateArgs :
          LET d == CallDraw(calls)
              c == CallGenerate(uuidHistory, args, d.ts, d.seed)
          IN  /\ uuidHistory' = c.history
              /\ generated' = generated \o c.pushed
              /\ last' = Answer(RequestId, RequestId,
                                Served("stdio", NoHeader, "generate_uuid", args, 0, 0, c.resp))
    /\ calls' = calls + 1
    /\ UNCHANGED <<handler, httpVars, codecVars>>

\* tools/call validate_uuid
StdioValidate ==
    /\ \E u \in ValidateSamples :
          last' = Answer(RequestId, RequestId,
                         Served("stdio", NoHeader, "validate_uuid", [uuid |-> u], 0, 0,
                                validate_uuid(u)))
    /\ UNCHANGED <<historyVars, httpVars, codecVars>>

\* resources/read uuid://history
StdioRead ==
    /\ last' = Answer(RequestId, RequestId,
                      Served("stdio", NoHeader, "resources/read", Absent, 0, 0,
                             uuid_history(uuidHistory)))
    /\ uuidHistory' = ArrayAfterSlice(uuidHistory)
    /\ UNCHANGED <<generated, calls, handler, httpVars, codecVars>>

NextStdio == StdioGenerate \/ StdioValidate \/ StdioRead

SpecStdio == InitStdio /\ [][NextStdio]_vars

----------------------------------------------------------------------------
(* The generate_uuid handler followed statement by statement *)

\* Arguments of the calls followed: the defaults, ten v7, one and a half,
\* and eleven (which the schema refuses).
StepArgs == {Absent, [version |-> V7, count |-> 20], [count |-> 3], [count |-> 22]}

\* Earlier traffic of the servers followed: none, 99, 100 and 140 records.
StepTraffic == { <<0, 2>>, <<11, 18>>, <<10, 20>>, <<14, 20>> }

InitHandler ==
    /\ \E e \in StepTraffic :
          LET st == Replay([history |-> <<>>, generated |-> <<>>], e[1], e[2])
          IN  uuidHistory = st.history /\ generated = st.generated
    /\ calls = 0
    /\ handler = NoFrame
    /\ last = NoRequest
    /\ HttpIdle
    /\ CodecIdle

\* tools/call generate_uuid with arguments the schema accepts: the handler
\* starts with uuids = [] and i = 0.
HandlerEnter ==
    /\ handler.pc = "idle"
    /\ calls < MaxCalls
    /\ \E args \in StepArgs :
          /\ VersionSchemaOk(args) /\ CountSchemaOk(args)
          /\ handler' = [ pc |-> "run", args |-> args, version |-> VersionOf(args),
                          halves |-> CountOf(args), i |-> 0,
                          ts |-> CallDraw(calls).ts, seed |-> CallDraw(calls).seed,
                          uuids |-> <<>> ]
    /\ calls' = calls + 1
    /\ UNCHANGED <<uuidHistory, generated, last, httpVars, codecVars>>

\* tools/call generate_uuid with arguments the schema refuses: the handler
\* does not run.
HandlerRefused ==
    /\ handler.pc = "idle"
    /\ calls < MaxCalls
    /\ \E args \in StepArgs :
          /\ ~(VersionSchemaOk(args) /\ CountSchemaOk(args))
          /\ last' = Answer(RequestId, RequestId,
                            Served("stdio", NoHeader, "generate_uuid", args, 0, 0,
                                   CallGenerate(uuidHistory, args, <<0, 0>>, 0).resp))
    /\ calls' = calls + 1
    /\ UNCHANGED <<uuidHistory, generated, handler, httpVars, codecVars>>

\* One iteration of the for loop: i < count, the identifier is generated,
\* pushed onto uuids and onto uuidHistory, and i is incremented.
HandlerPush ==
    /\ handler.pc = "run"
    /\ 2 * handler.i < handler.halves
    /\ LET uuid   == NewUuid(handler.version, handler.ts,
                             RandomBytesOf(handler.seed, handler.i, 16))
           record == [uuid |-> uuid, version |-> handler.version, createdAt |-> handler.ts]
       IN  /\ handler' = [handler EXCEPT !.uuids = Append(@, uuid), !.i = @ + 1]
           /\ uuidHistory' = Append(uuidHistory, record)
           /\ generated' = Append(generated, record)
    /\ UNCHANGED <<calls, last, httpVars, codecVars>>

\* One iteration of the while loop, after the for loop has ended:
\* uuidHistory.length > 100, so uuidHistory.shift().
HandlerShift ==
    /\ handler.pc = "run"
    /\ ~(2 * handler.i < handler.halves)
    /\ Len(uuidHistory) > HistoryLimit
    /\ uuidHistory' = Tail(uuidHistory)
    /\ UNCHANGED <<generated, calls, handler, last, httpVars, codecVars>>

\* Both loops have ended: the handler returns the text.
HandlerReturn ==
    /\ handler.pc = "run"
    /\ ~(2 * handler.i < handler.halves)
    /\ ~(Len(uuidHistory) > HistoryLimit)
    /\ last' = Answer(RequestId, RequestId,
                      Served("stdio", NoHeader, "generate_uuid", handler.args, 0, 0,
                             [ ok |-> TRUE, error |-> "", uuids |-> handler.uuids,
                               text |-> GenerateText(handler.version, handler.halves,
                                                     handler.uuids) ]))
    /\ handler' = NoFrame
    /\ UNCHANGED <<uuidHistory, generated, calls, httpVars, codecVars>>

\* Where the followed handler stands: not running, at the test of the for
\* loop with an iteration to do, at the while loop with a record to shift,
\* or at the return statement.
ProgramPoint ==
    IF handler.pc = "idle" THEN "idle"
    ELSE IF 2 * handler.i < handler.halves THEN "loop"
    ELSE IF Len(uuidHistory) > HistoryLimit THEN "evict"
    ELSE "return"

\* Mutant of AwaitPoints: an await inside the for loop.
AwaitPoints_InLoop == {"loop"}

\* The program points of the handler body that are await expressions: the
\* function is async, and its body has none.
AwaitPoints == {}

\* Another request's handler can start only when the followed handler is
\* not on the stack: it has not started, has returned, or is suspended at
\* an await.
CanDispatch == ProgramPoint \in {"idle"} \cup AwaitPoints

\* resources/read uuid://history, sent by any client, served when it can be
\* dispatched.
HandlerRead ==
    /\ CanDispatch
    /\ last' = Answer(RequestId, RequestId,
                      Served("stdio", NoHeader, "resources/read", Absent, 0, 0,
                             uuid_history(uuidHistory)))
    /\ uuidHistory' = ArrayAfterSlice(uuidHistory)
    /\ UNCHANGED <<generated, calls, handler, httpVars, codecVars>>

\* Another generate_uuid call (one v4 identifier), sent by any client, run
\* from entry to return when it can be dispatched.  One such call may come
\* on top of the calls followed.
HandlerRival ==
    /\ CanDispatch
    /\ calls <= MaxCalls
    /\ LET d == CallDraw(calls + 100)
           c == CallGenerate(uuidHistory, Absent, d.ts, d.seed)
       IN  /\ uuidHistory' = c.history
           /\ generated' = generated \o c.pushed
           /\ last' = Answer(RequestId, RequestId,
                             Served("stdio", NoHeader, "generate_uuid", Absent, 0, 0, c.resp))
    /\ calls' = MaxCalls + 1
    /\ UNCHANGED <<handler, httpVars, codecVars>>

NextHandler ==
    \/ HandlerEnter \/ HandlerRefused \/ HandlerPush \/ HandlerShift \/ HandlerReturn
    \/ HandlerRead \/ HandlerRival

SpecHandler == InitHandler /\ [][NextHandler]_vars

----------------------------------------------------------------------------
(* Claims about the handlers, under SpecStdio *)

Min(a, b) == IF a < b THEN a ELSE b

\* The last n elements of a sequence.
LastN(s, n) == IF n >= Len(s) THEN s ELSE SubSeq(s, Len(s) - n + 1, Len(s))

\* The identifiers a text shows, in order: its windows of 36 characters that
\* have the canonical shape.
RECURSIVE IdsFrom(_, _)
IdsFrom(text, p) ==
    IF p + 35 > Len(text) THEN <<>>
    ELSE IF CanonicalShape(SubSeq(text, p, p + 35))
         THEN <<SubSeq(text, p, p + 35)>> \o IdsFrom(text, p + 36)
         ELSE IdsFrom(text, p + 1)
IdsInText(text) == IdsFrom(text, 1)

\* A generate_uuid request has just been served.
GenerateServed == last'.seq # last.seq /\ last'.op = "generate_uuid"

\* C1: for every integer count in 1..10 and every version in {v4, v7}, one
\* generate_uuid call returns exactly count identifiers and appends exactly
\* count records to the history log, one per identifier in order, each tagged
\* with the requested version (the log keeps its newest 100 records).
C1_GenerateCount ==
    [][ ( /\ GenerateServed
          /\ DOMAIN last'.args = {"version", "count"}
          /\ last'.args.version \in {V4, V7}
          /\ last'.args.count \in {2 * c : c \in 1..10} )
        => LET n   == last'.args.count \div 2
               ids == IdsInText(last'.resp.text)
               new == [i \in 1..n |-> [uuid |-> ids[i], version |-> last'.args.version]]
               log == uuidHistory'
           IN  /\ last'.resp.ok
               /\ Len(ids) = n
               /\ Len(log) = Min(Len(uuidHistory) + n, HistoryLimit)
               /\ \A i \in 1..n :
                     /\ log[Len(log) - n + i].uuid = new[i].uuid
                     /\ log[Len(log) - n + i].version = new[i].version
               /\ SubSeq(log, 1, Len(log) - n) = LastN(uuidHistory, Len(log) - n)
      ]_vars

\* A call for ten v7 identifiers has been served by a server whose log
\* already held 99 records.
C1_Witness ==
    /\ last.op = "generate_uuid"
    /\ last.args = [version |-> V7, count |-> 20]
    /\ Len(IdsInText(last.resp.text)) = 10
    /\ Len(generated) = 109
    /\ uuidHistory[100].uuid = IdsInText(last.resp.text)[10]

\* C2: after any sequence of completed generate_uuid calls the history log
\* holds at most 100 records.
C2_HistoryBounded == Len(uuidHistory) <= 100

\* More than 100 records have been generated, the last of them by a call just
\* served, and the log is full.
C2_Witness ==
    /\ last.op = "generate_uuid" /\ last.resp.ok
    /\ Len(generated) > 100
    /\ Len(uuidHistory) = 100

\* C3: a read of the history resource returns the most recent
\* min(20, length) records of the log in generation order, oldest of the
\* slice first: of the N records generated so far it returns records
\* N - min(20, N) + 1 .. N, so records 131..150 after 150.
C3_ReadRecent ==
    last.op = "resources/read"
        => LET N == Len(generated)
               k == Min(20, Len(uuidHistory))
           IN  /\ k = Min(20, N)
               /\ last.resp.history = SubSeq(generated, N - k + 1, N)

\* 150 records have been generated and the resource has been read.
C3_Witness ==
    /\ last.op = "resources/read"
    /\ Len(generated) = 150
    /\ last.resp.history = SubSeq(generated, 131, 150)

\* C8: a generate_uuid request with count 0 or count 11 is rejected as
\* invalid params before the handler runs, so the history log is unchanged;
\* a request that omits count behaves as count = 1 and one that omits
\* version behaves as version = v4.
C8_SchemaDefaults ==
    [][ GenerateServed
        => LET args == last'.args
               d    == CallDraw(calls)
               With(name, value) ==
                   [f \in DOMAIN args \cup {name} |-> IF f = name THEN value ELSE args[f]]
           IN  /\ ("count" \in DOMAIN args /\ args.count \in {0, 22})
                    => /\ ~last'.resp.ok
                       /\ last'.resp.error = "InvalidParams"
                       /\ uuidHistory' = uuidHistory
                       /\ generated' = generated
               /\ ("count" \notin DOMAIN args /\ VersionSchemaOk(args))
                    => /\ Len(IdsInText(last'.resp.text)) = 1
                       /\ Len(generated') = Len(generated) + 1
                       /\ LET c == CallGenerate(uuidHistory, With("count", 2), d.ts, d.seed)
                          IN  last'.resp = c.resp /\ uuidHistory' = c.history
               /\ ("version" \notin DOMAIN args /\ CountSchemaOk(args))
                    => /\ last'.resp.ok
                       /\ \A i \in Len(generated) + 1 .. Len(generated') :
                             generated'[i].version = V4 /\ generated'[i].uuid[15] = "4"
                       /\ LET c == CallGenerate(uuidHistory, With("version", V4), d.ts, d.seed)
                          IN  last'.resp = c.resp /\ uuidHistory' = c.history
      ]_vars

\* A request with count 11 has been rejected by a server with a non-empty log.
C8_Witness ==
    /\ last.op = "generate_uuid"
    /\ last.args = [count |-> 22]
    /\ last.resp.error = "InvalidParams"
    /\ Len(uuidHistory) = 3 /\ Len(generated) = 3

RECURSIVE LinesFrom(_, _)
\* The lines of a text from position p on: the pieces between line feeds.
LinesFrom(text, p) ==
    LET feeds == {q \in p..Len(text) : text[q] = "\n"}
    IN  IF feeds = {} THEN <<SubSeq(text, p, Len(text))>>
        ELSE LET q == CHOOSE q \in feeds : \A r \in feeds : q <= r
             IN  <<SubSeq(text, p, q - 1)>> \o LinesFrom(text, q + 1)
LinesOf(text) == LinesFrom(text, 1)

\* The decimal numerals of 1..10.
IndexLabels ==
    << <<"1">>, <<"2">>, <<"3">>, <<"4">>, <<"5">>, <<"6">>, <<"7">>, <<"8">>, <<"9">>,
       <<"1", "0">> >>

\* The first line of the summary for a version: the fixed words, the
\* version in parentheses, a colon.
SummaryHead(version) == <<"header(">> \o version \o <<")", ":">>

\* C15: the text summary of generate_uuid lists every generated identifier
\* in generation order.  With count = 1 the identifier follows the head on
\* the same line with no index before it; with count > 1 the i-th
\* identifier is alone on line i + 1, after the prefix "i. ", for
\* i = 1..count.
C15_SummaryText ==
    [][ ( /\ GenerateServed
          /\ last'.resp.ok
          /\ CountOf(last'.args) % 2 = 0 )
        => LET n     == CountOf(last'.args) \div 2
               ids   == [i \in 1..n |-> generated'[Len(generated) + i].uuid]
               lines == LinesOf(last'.resp.text)
               head  == SummaryHead(VersionOf(last'.args))
           IN  /\ Len(generated') = Len(generated) + n
               /\ n = 1 => lines = << head \o <<" ">> \o ids[1] >>
               /\ n > 1 => /\ Len(lines) = n + 1
                           /\ lines[1] = head
                           /\ \A i \in 1..n :
                                 lines[i + 1] = IndexLabels[i] \o <<".", " ">> \o ids[i]
      ]_vars

\* A call for ten v4 identifiers has been answered with eleven lines, the
\* last of them numbered 10.
C15_Witness ==
    /\ last.op = "generate_uuid"
    /\ last.args = [version |-> V4, count |-> 20]
    /\ Len(LinesOf(last.resp.text)) = 11
    /\ SubSeq(LinesOf(last.resp.text)[11], 1, 4) = <<"1", "0", ".", " ">>

\* C17: after any sequence of completed generate_uuid calls that pushed N
\* records in total, the history log is the last min(N, 100) of them in
\* generation order: eviction takes only the oldest records and neither
\* reorders nor drops a newer one.
C17_FifoEviction ==
    LET N == Len(generated)
    IN  uuidHistory = SubSeq(generated, N - Min(N, HistoryLimit) + 1, N)

\* 143 records have been pushed, the last three by the call just served:
\* the log runs from record 44 to record 143.
C17_Witness ==
    /\ last.op = "generate_uuid" /\ last.resp.ok
    /\ Len(generated) = 143
    /\ Len(uuidHistory) = 100
    /\ uuidHistory[1] = generated[44]
    /\ uuidHistory[100] = generated[143]

\* C27: validate_uuid calls and reads of the history resource leave the
\* history log as it was (same records, same order, same length), whatever
\* their input and their result.
C27_ReadsLeaveLog ==
    [][ (last'.seq # last.seq /\ last'.op \in {"validate_uuid", "resources/read"})
        => /\ uuidHistory' = uuidHistory
           /\ Len(uuidHistory') = Len(uuidHistory)
           /\ generated' = generated
      ]_vars

\* An invalid string has been validated on a server whose log holds 99
\* records.
C27_Witness ==
    /\ last.op = "validate_uuid"
    /\ ~last.resp.isValid
    /\ Len(uuidHistory) = 99
    /\ uuidHistory = generated

C25_IntegerCountOnly ==
    [][ (GenerateServed /\ "count" \in DOMAIN last'.args)
        => /\ last'.resp.ok => last'.args.count \in {2 * c : c \in 1..10}
           /\ (last'.args.count % 2 = 1)
                => /\ last'.resp.error = "InvalidParams"
                   /\ last'.resp.uuids = <<>>
                   /\ uuidHistory' = uuidHistory
                   /\ generated' = generated
      ]_vars

----------------------------------------------------------------------------
(* Claims about the handler's intermediate states, under SpecHandler *)

\* C18: the capacity bound holds per record append.  In every reachable
\* state, the states between two appends inside one generate_uuid call
\* included, the history log holds at most 100 records.
C18_BoundedBetweenAppends ==
    handler.pc \in {"idle", "run"} => Len(uuidHistory) <= HistoryLimit

\* C28: under any interleaving of concurrent requests, the records one
\* generate_uuid call appends are contiguous and in generation order in the
\* history log, and no history read observes only part of a call's records:
\* when the call returns, its identifiers are the last records pushed and
\* the last records of the log, in order, and a read is served only when no
\* call is between its entry and its return, so that it sees the log of
\* whole calls, evicted down to the capacity.
C28_CallsAreAtomic ==
    [][ /\ (handler.pc = "run" /\ handler'.pc = "idle")
            => LET n == Len(handler.uuids)
               IN  /\ n <= Len(uuidHistory)
                   /\ \A i \in 1..n :
                         /\ generated[Len(generated) - n + i].uuid = handler.uuids[i]
                         /\ uuidHistory[Len(uuidHistory) - n + i].uuid = handler.uuids[i]
        /\ (last'.seq # last.seq /\ last'.op = "resources/read")
            => /\ handler.pc = "idle"
               /\ last'.resp.totalCount = Min(Len(generated), HistoryLimit)
               /\ last'.resp.history = LastN(generated, RecentCount)
      ]_vars

\* The resource has been read right after a call for ten identifiers
\* returned on a server that held 99 records.
C28_Witness ==
    /\ last.op = "resources/read"
    /\ handler.pc = "idle"
    /\ calls = 1
    /\ Len(generated) = 109
    /\ last.resp.totalCount = 100
    /\ last.resp.history = SubSeq(generated, 90, 109)

----------------------------------------------------------------------------
(* HTTP mode: startHttpServer *)

MaxSessions == 2

\* res.status(400)
BadRequest == 400

\* error: { code: -32000, ... }
InvalidSession == -32000

\* The mcp-session-id values clients send: every id the generator can
\* produce within the bound, and one more that it never produces.
HeaderSamples == 1..(MaxSessions + 1)

\* Arguments of generate_uuid sent over HTTP: none, three v7.
HttpGenerateArgs == {Absent, [version |-> V7, count |-> 6]}

\* Request bodies: the id, the method (for tools/call, the tool) and its
\* arguments.
HttpBodies ==
    { [id |-> RequestId, op |-> "initialize", args |-> Absent],
      [id |-> RequestId, op |-> "tools/list", args |-> Absent],
      [id |-> RequestId, op |-> "resources/read", args |-> Absent] }
    \cup { [id |-> RequestId, op |-> "generate_uuid", args |-> a] : a \in HttpGenerateArgs }

\* Mutant of isInitializeRequest: every body passes.
isInitializeRequest_Any(body) == body.op = body.op

\* isInitializeRequest(req.body)
isInitializeRequest(body) == body.op = "initialize"

\* Mutant of PostRoute: the create branch does not test !sessionId.
PostRoute_HeaderIgnored(sessionId, body, sess) ==
    IF sessionId # NoHeader /\ sessionId \in DOMAIN sess THEN "reuse"
    ELSE IF isInitializeRequest(body) THEN "create"
    ELSE "reject"

\* The branch POST /mcp takes: reuse the session's transport, create a
\* transport, or reject.
PostRoute(sessionId, body, sess) ==
    IF sessionId # NoHeader /\ sessionId \in DOMAIN sess THEN "reuse"
    ELSE IF sessionId = NoHeader /\ isInitializeRequest(body) THEN "create"
    ELSE "reject"

\* Mutant of sessionIdGenerator: the second id repeats the first.
sessionIdGenerator_Repeating(n) == IF n = 0 THEN 1 ELSE n

\* Mutant of sessionIdGenerator: the id does not depend on what was minted.
sessionIdGenerator_Constant(n) == 1

\* sessionIdGenerator: () => randomUUID().  The n+1-st id differs from the
\* n ids before it.
sessionIdGenerator(n) == n + 1

\* Mutant of SessionsSet: nothing is stored.
SessionsSet_Dropped(sess, id, t) == sess

\* Mutant of SessionsSet: the map is replaced by the one entry.
SessionsSet_Only(sess, id, t) == [k \in {id} |-> t]

\* sessions.set(id, transport)
SessionsSet(sess, id, t) == [k \in DOMAIN sess \cup {id} |-> IF k = id THEN t ELSE sess[k]]

\* Mutant of SessionsDelete: sessions.clear().
SessionsDelete_Clear(sess, id) == NoSessions

\* Mutant of SessionsDelete: the entry is kept.
SessionsDelete_Kept(sess, id) == sess

\* sessions.delete(id)
SessionsDelete(sess, id) == [k \in DOMAIN sess \ {id} |-> sess[k]]

\* Mutant of SessionsGet: a known key gets the transport of the smallest key.
SessionsGet_First(sess, id) ==
    IF id \in DOMAIN sess
    THEN sess[CHOOSE k \in DOMAIN sess : \A j \in DOMAIN sess : k <= j]
    ELSE NoTransport

\* Mutant of SessionsGet: the key is not compared.
SessionsGet_Any(sess, id) ==
    IF DOMAIN sess # {} THEN sess[CHOOSE k \in DOMAIN sess : TRUE] ELSE NoTransport

\* sessions.get(id): the transport (its index in transports), or undefined.
SessionsGet(sess, id) == IF id \in DOMAIN sess THEN sess[id] ELSE NoTransport

\* Mutant of OnClose: the callback does nothing.
OnClose_Nothing(sess, transport) == sess

\* transport.onclose: if (transport.sessionId) sessions.delete(transport.sessionId)
OnClose(sess, transport) ==
    IF transport.sessionId # NoHeader THEN SessionsDelete(sess, transport.sessionId) ELSE sess

\* The history array the handlers of the server connected to transport t
\* read and write: createUuidServer closes over the module-level array,
\* whatever the transport.
ServerHistory(t) == uuidHistory

InitHttp ==
    /\ uuidHistory = <<>> /\ generated = <<>> /\ calls = 0 /\ handler = NoFrame
    /\ last = NoRequest
    /\ HttpIdle
    /\ CodecIdle

\* POST /mcp, create branch, up to `await server.connect(transport)`.
PostCreate ==
    /\ Len(transports) < MaxSessions
    /\ \E h \in {NoHeader} \cup HeaderSamples, body \in HttpBodies :
          /\ PostRoute(h, body, sessions) = "create"
          /\ transports' = Append(transports, [sessionId |-> NoHeader, closed |-> FALSE])
          /\ pending' = pending \cup {[t |-> Len(transports) + 1, header |-> h, body |-> body]}
    /\ UNCHANGED <<sessions, minted, everActive, terminated, last, historyVars, codecVars>>

\* POST /mcp, create branch, after the await: transport.handleRequest on the
\* initialize request mints the session id and calls onsessioninitialized.
PostConnected ==
    \E p \in pending :
        LET id == sessionIdGenerator(minted)
        IN  /\ pending' = pending \ {p}
            /\ minted' = minted + 1
            /\ transports' = [transports EXCEPT ![p.t].sessionId = id]
            /\ sessions' = SessionsSet(sessions, id, p.t)
            /\ everActive' = everActive \cup {id}
            /\ last' = HandledBy(p.t,
                              Answer(p.body.id, p.body.id,
                                     Served("POST", p.header, p.body.op, p.body.args, 200, 0,
                                            [ok |-> TRUE, session |-> id])))
            /\ UNCHANGED <<terminated, historyVars, codecVars>>

\* POST /mcp, reuse branch, tools/call generate_uuid.
PostGenerate ==
    /\ calls < MaxCalls
    /\ \E h \in HeaderSamples, body \in HttpBodies :
          /\ PostRoute(h, body, sessions) = "reuse"
          /\ body.op = "generate_uuid"
          /\ LET t == SessionsGet(sessions, h)
                 d == CallDraw(calls)
                 c == CallGenerate(ServerHistory(t), body.args, d.ts, d.seed)
             IN  /\ uuidHistory' = c.history
                 /\ generated' = generated \o c.pushed
                 /\ last' = HandledBy(t,
                                Answer(body.id, body.id,
                                       Served("POST", h, body.op, body.args, 200, 0, c.resp)))
    /\ calls' = calls + 1
    /\ UNCHANGED <<handler, httpVars, codecVars>>

\* POST /mcp, reuse branch, any other body.  The transport answers an
\* initialize request on an initialized session with 400 Invalid Request
\* and a null id.
PostReuse ==
    /\ \E h \in HeaderSamples, body \in HttpBodies :
          /\ PostRoute(h, body, sessions) = "reuse"
          /\ body.op # "generate_uuid"
          /\ LET t == SessionsGet(sessions, h)
             IN  last' = HandledBy(t,
                    CASE body.op = "initialize" ->
                            Answer(body.id, Null,
                                   Served("POST", h, body.op, body.args, 400, -32600,
                                          [ok |-> FALSE]))
                      [] body.op = "resources/read" ->
                            Answer(body.id, body.id,
                                   Served("POST", h, body.op, body.args, 200, 0,
                                          uuid_history(ServerHistory(t))))
                      [] OTHER ->
                            Answer(body.id, body.id,
                                   Served("POST", h, body.op, body.args, 200, 0, NoResp)))
          /\ uuidHistory' = IF body.op = "resources/read"
                            THEN ArrayAfterSlice(uuidHistory) ELSE uuidHistory
    /\ UNCHANGED <<httpVars, generated, calls, handler, codecVars>>

\* POST /mcp, reject branch: status 400, error code -32000, id: null.
PostReject ==
    /\ \E h \in {NoHeader} \cup HeaderSamples, body \in HttpBodies :
          /\ PostRoute(h, body, sessions) = "reject"
          /\ last' = Answer(body.id, Null,
                            Served("POST", h, body.op, body.args, BadRequest, InvalidSession,
                                   [ok |-> FALSE]))
    /\ UNCHANGED <<httpVars, historyVars, codecVars>>

\* GET /mcp: the stream of an existing session, or 400.
GetStream ==
    /\ \E h \in {NoHeader} \cup HeaderSamples :
          last' = IF SessionsGet(sessions, h) # NoTransport
                  THEN HandledBy(SessionsGet(sessions, h),
                                 Served("GET", h, "stream", Absent, 200, 0, NoResp))
                  ELSE Served("GET", h, "stream", Absent, BadRequest, InvalidSession,
                              [ok |-> FALSE])
    /\ UNCHANGED <<httpVars, historyVars, codecVars>>

\* DELETE /mcp on an existing session: the transport calls onsessionclosed
\* with its session id, then closes, which calls onclose.
DeleteSession ==
    /\ \E h \in HeaderSamples :
          /\ SessionsGet(sessions, h) # NoTransport
          /\ LET t == SessionsGet(sessions, h)
             IN  /\ sessions' = OnClose(SessionsDelete(sessions, transports[t].sessionId),
                                        transports[t])
                 /\ transports' = [transports EXCEPT ![t].closed = TRUE]
          /\ terminated' = terminated \cup {h}
          /\ last' = HandledBy(SessionsGet(sessions, h),
                               Served("DELETE", h, "terminate", Absent, 200, 0, NoResp))
    /\ UNCHANGED <<pending, minted, everActive, historyVars, codecVars>>

\* DELETE /mcp without an existing session.
DeleteReject ==
    /\ \E h \in {NoHeader} \cup HeaderSamples :
          /\ SessionsGet(sessions, h) = NoTransport
          /\ last' = Served("DELETE", h, "terminate", Absent, BadRequest, InvalidSession,
                            [ok |-> FALSE])
    /\ UNCHANGED <<httpVars, historyVars, codecVars>>

\* An initialized transport that is still open closes: transport.onclose.
TransportClosed ==
    /\ \E t \in 1..Len(transports) :
          /\ transports[t].sessionId # NoHeader
          /\ ~transports[t].closed
          /\ sessions' = OnClose(sessions, transports[t])
          /\ transports' = [transports EXCEPT ![t].closed = TRUE]
    /\ UNCHANGED <<pending, minted, everActive, terminated, last, historyVars, codecVars>>

\* GET /health
Health ==
    /\ last' = Served("GET", NoHeader, "health", Absent, 200, 0,
                      [ok |-> TRUE, activeSessions |-> Cardinality(DOMAIN sessions)])
    /\ UNCHANGED <<httpVars, historyVars, codecVars>>

Next ==
    \/ PostCreate \/ PostConnected \/ PostGenerate \/ PostReuse \/ PostReject
    \/ GetStream \/ DeleteSession \/ DeleteReject \/ TransportClosed \/ Health

Spec == InitHttp /\ [][Next]_vars

----------------------------------------------------------------------------
(* Claims about the session layer, under Spec *)

\* A request has just been answered.
RequestServed == last'.seq # last.seq

\* What a read of uuid://history in the session with id b returns.
HistoryView(b) == uuid_history(ServerHistory(sessions[b]))

\* C4: history is isolated per HTTP session.  A generate_uuid call made in
\* session A never changes what a history resource read in a different
\* session B returns, neither totalCount nor the records.
C4_SessionIsolation ==
    [][ (RequestServed /\ last'.verb = "POST" /\ last'.op = "generate_uuid")
        => \A b \in DOMAIN sessions \ {last'.header} : HistoryView(b)' = HistoryView(b)
      ]_vars

\* The POST request just answered carried an unrecognized session id, or
\* carried none and was not an initialize request.
PostWithoutSession ==
    /\ RequestServed
    /\ last'.verb = "POST"
    /\ \/ last'.header # NoHeader /\ last'.header \notin DOMAIN sessions
       \/ last'.header = NoHeader /\ last'.op # "initialize"

\* C5: a POST /mcp request that carries an unrecognized session token, or
\* carries no token and is not an initialize request, is answered with HTTP
\* 400 and JSON-RPC error code -32000, and leaves the session map unchanged:
\* no session is created.
C5_InvalidSessionRejected ==
    [][ PostWithoutSession
        => /\ last'.status = 400
           /\ last'.code = -32000
           /\ sessions' = sessions
           /\ transports' = transports
           /\ pending' = pending
      ]_vars

\* An initialize request carrying an id that is not in the map has been
\* rejected while another session was active.
C5_Witness ==
    /\ last.verb = "POST" /\ last.op = "initialize"
    /\ last.header # NoHeader /\ last.header \notin DOMAIN sessions
    /\ last.status = 400 /\ last.code = -32000
    /\ DOMAIN sessions # {}

\* An initialize request to POST /mcp has just been answered.
HandshakeServed == RequestServed /\ last'.verb = "POST" /\ last'.op = "initialize"

C7_TerminatedStaysRejected ==
    [][ /\ \A tok \in terminated' : tok \notin DOMAIN sessions'
        /\ ( /\ RequestServed
             /\ last'.verb \in {"POST", "GET", "DELETE"}
             /\ last'.header \in terminated )
           => /\ last'.status = 400
              /\ last'.code = -32000
              /\ sessions' = sessions
      ]_vars

\* An initialize request carrying a terminated token has been rejected.
C7_Witness ==
    /\ last.verb = "POST" /\ last.op = "initialize"
    /\ last.header \in terminated
    /\ last.status = 400 /\ last.code = -32000

\* C13: every response carries the correlation id of the request it
\* answers, the InvalidSession rejections of POST, GET and DELETE /mcp
\* included, and no response carries both a result and an error.
C13_CorrelationId ==
    [][ RequestServed
        => /\ last'.id = last'.reqId
           /\ ~(last'.resp.ok /\ last'.code # 0)
      ]_vars

\* The transports that have been initialized and have not closed.
OpenTransports ==
    {t \in 1..Len(transports) : transports[t].sessionId # NoHeader /\ ~transports[t].closed}

\* C14: in every reachable state the size of the session map, which is the
\* activeSessions value GET /health reports, is the number of sessions that
\* have been initialized and not yet closed, by a terminate request or by
\* the closing of the transport; the health request reports that number and
\* leaves the session map unchanged.
C14_HealthCount ==
    /\ [](Cardinality(DOMAIN sessions) = Cardinality(OpenTransports))
    /\ [][ (RequestServed /\ last'.op = "health")
            => /\ last'.resp.activeSessions = Cardinality(OpenTransports)
               /\ last'.status = 200
               /\ sessions' = sessions
               /\ transports' = transports
          ]_vars

\* Health has reported one active session after two sessions were
\* initialized, one of which a terminate request or a transport close ended.
C14_Witness ==
    /\ last.op = "health"
    /\ last.resp.activeSessions = 1
    /\ everActive = {1, 2}
    /\ Cardinality(OpenTransports) = 1
    /\ \E t \in 1..Len(transports) : transports[t].closed /\ transports[t].sessionId \notin terminated

\* C16: a GET /mcp (stream) or DELETE /mcp (terminate) request whose session
\* header is absent or not a key of the session map is answered with HTTP
\* 400 and error code -32000 and leaves the session map unchanged; neither
\* verb ever adds a session.
C16_StreamTerminateRejected ==
    [][ (RequestServed /\ last'.op \in {"stream", "terminate"})
        => /\ last'.verb \in {"GET", "DELETE"}
           /\ last'.header \notin DOMAIN sessions
                => /\ last'.status = 400
                   /\ last'.code = -32000
                   /\ ~last'.resp.ok
                   /\ sessions' = sessions
                   /\ transports' = transports
           /\ DOMAIN sessions' \subseteq DOMAIN sessions
           /\ Len(transports') = Len(transports)
           /\ pending' = pending
      ]_vars

\* A GET carrying a header that was never a session id has been rejected
\* while a session was active.
C16_Witness ==
    /\ last.verb = "GET" /\ last.op = "stream"
    /\ last.header # NoHeader /\ last.header \notin everActive
    /\ last.status = 400 /\ last.code = -32000
    /\ Cardinality(DOMAIN sessions) = 1

\* C19: an entry is added to the session map only as the effect of an
\* initialize request to POST /mcp that carried no session header; no GET,
\* DELETE, health request, non-initialize POST or POST carrying a session
\* header adds one, and an entry is never bound to another transport.
C19_OnlyHandshakeCreates ==
    [][ /\ (DOMAIN sessions' \ DOMAIN sessions # {})
            => /\ RequestServed
               /\ last'.verb = "POST"
               /\ last'.op = "initialize"
               /\ last'.header = NoHeader
        /\ \A k \in DOMAIN sessions \cap DOMAIN sessions' : sessions'[k] = sessions[k]
        /\ (Len(transports') > Len(transports))
            => \E p \in pending' \ pending :
                  p.header = NoHeader /\ isInitializeRequest(p.body)
      ]_vars

\* An initialize request carrying the id of an active session has been
\* answered without a session being added.
C19_Witness ==
    /\ last.verb = "POST" /\ last.op = "initialize"
    /\ last.header \in DOMAIN sessions
    /\ last.status = 400
    /\ minted = 1 /\ Len(transports) = 1

\* C20: tokenless initialize requests handled concurrently, interleaved at
\* the awaits of the handler, each get their own session: every completed
\* handshake adds one entry and neither overwrites nor removes another, and
\* the map binds distinct ids to distinct transports, each transport to the
\* id it minted.
C20_ConcurrentHandshakes ==
    /\ [](\A k \in DOMAIN sessions :
             /\ transports[sessions[k]].sessionId = k
             /\ \A j \in DOMAIN sessions : j # k => sessions[j] # sessions[k])
    /\ [][ (HandshakeServed /\ last'.status = 200)
            => /\ \A k \in DOMAIN sessions : k \in DOMAIN sessions' /\ sessions'[k] = sessions[k]
               /\ Cardinality(DOMAIN sessions') = Cardinality(DOMAIN sessions) + 1
               /\ \E p \in pending :
                     /\ pending' = pending \ {p}
                     /\ sessions'[last'.resp.session] = p.t
                     /\ p.t \notin {sessions[k] : k \in DOMAIN sessions}
          ]_vars

\* Two handshakes were suspended together and completed in the other order:
\* the transport created second holds the id minted first, and both
\* sessions are in the map.
C20_Witness ==
    /\ pending = {}
    /\ DOMAIN sessions = {1, 2}
    /\ sessions[1] = 2 /\ sessions[2] = 1
    /\ transports[1].sessionId = 2 /\ transports[2].sessionId = 1

\* C21: the closed state is terminal.  Once a token has been removed from
\* the session map it is never a key of the map again, whatever handshakes,
\* requests and closures follow.
C21_ClosedIsTerminal ==
    [][ \A tok \in everActive \ DOMAIN sessions : tok \notin DOMAIN sessions' ]_vars

\* The first session was closed by its transport, a second handshake has
\* completed since, and a request carrying the first token has just been
\* rejected.
C21_Witness ==
    /\ 1 \in everActive /\ 1 \notin terminated
    /\ DOMAIN sessions = {2}
    /\ last.verb = "GET" /\ last.header = 1
    /\ last.status = 400

\* The map after the session-closed callback, and after the transport's
\* onclose callback, of transport t.
AfterSessionClosed(sess, t) == SessionsDelete(sess, transports[t].sessionId)
AfterOnClose(sess, t) == OnClose(sess, transports[t])

\* C22: session closure is idempotent and local.  For every initialized
\* transport, letting its session-closed callback and its onclose callback
\* fire in either order, or either of them twice, leaves the same map as
\* firing one of them once: the token is absent and every other entry is as
\* it was.
C22_ClosureIdempotent ==
    \A t \in 1..Len(transports) :
        transports[t].sessionId # NoHeader
            => LET id   == transports[t].sessionId
                   once == AfterSessionClosed(sessions, t)
               IN  /\ id \notin DOMAIN once
                   /\ DOMAIN once = DOMAIN sessions \ {id}
                   /\ \A k \in DOMAIN once : once[k] = sessions[k]
                   /\ AfterOnClose(sessions, t) = once
                   /\ AfterOnClose(once, t) = once
                   /\ AfterSessionClosed(AfterOnClose(sessions, t), t) = once
                   /\ AfterSessionClosed(once, t) = once
                   /\ AfterOnClose(AfterOnClose(sessions, t), t) = once

\* A terminate request, which fires both callbacks, has been served for one
\* of two active sessions: the other is still in the map.
C22_Witness ==
    /\ last.verb = "DELETE" /\ last.status = 200
    /\ last.header \in terminated
    /\ last.header \notin DOMAIN sessions
    /\ Cardinality(DOMAIN sessions) = 1
    /\ \E k \in DOMAIN sessions : ~transports[sessions[k]].closed

\* C23: a POST or GET request to /mcp carrying a recognized token is handed
\* to the transport stored under that token, which is the transport that
\* minted it, and to no other; routing it leaves the session map as it was.
C23_RoutedToOwnTransport ==
    [][ ( /\ RequestServed
          /\ last'.verb \in {"POST", "GET"}
          /\ last'.header \in DOMAIN sessions )
        => /\ last'.via = sessions[last'.header]
           /\ transports[last'.via].sessionId = last'.header
           /\ last'.code # -32000
           /\ sessions' = sessions
           /\ transports' = transports
      ]_vars

\* A resource read carrying the second token has been handed to the second
\* session's transport while the first session was active too.
C23_Witness ==
    /\ last.verb = "POST" /\ last.op = "resources/read"
    /\ last.header = 2
    /\ DOMAIN sessions = {1, 2}
    /\ last.via = sessions[2]
    /\ last.via # sessions[1]

\* The ids of the transports that have closed.
ClosedIds == {transports[t].sessionId : t \in {u \in 1..Len(transports) : transports[u].closed}}

\* C24: once a tokenless initialize request has completed, the token it
\* minted is in the session map, and every later POST, GET or DELETE
\* carrying that token is accepted (not answered as an invalid session) and
\* handed to the transport that minted it, until that session is closed.
C24_TokenAcceptedUntilClosed ==
    /\ [](everActive \ ClosedIds \subseteq DOMAIN sessions)
    /\ [][ ( /\ RequestServed
              /\ last'.verb \in {"POST", "GET", "DELETE"}
              /\ last'.header \in everActive \ ClosedIds )
            => /\ last'.code # -32000
               /\ last'.via # NoTransport
               /\ transports[last'.via].sessionId = last'.header
          ]_vars

\* After the first session was closed, a tools/list request carrying the
\* second token has been accepted.
C24_Witness ==
    /\ last.verb = "POST" /\ last.op = "tools/list"
    /\ last.header = 2 /\ last.status = 200
    /\ last.via # NoTransport
    /\ 1 \in ClosedIds /\ 2 \notin ClosedIds

====
